---- MODULE Spec2Model ----
(***************************************************************************)
(* A model of synology_album_linker: the concurrent folder collection of   *)
(* cache.py, the year resolution and the link creation of main.py and the  *)
(* client sessions of photos.py.                                           *)
(*                                                                         *)
(* Python strings are sequences of one-character strings, so that str(),   *)
(* the regular expressions and the slicing of the source act on the        *)
(* characters.  A dict is a function whose DOMAIN is its key set.          *)
(***************************************************************************)
EXTENDS Integers, Sequences, FiniteSets, TLC

VARIABLES
    \* ---- folder collection (cache.py, collect_folders_recursive) ----
    remote,      \* the service's folder trees: [personal, shared], each [n, parent]
    is_shared,   \* the is_shared argument of the collection
    failing,     \* the folder ids whose listing call raises
    call,        \* per folder id: the invocation collect_folders_recursive(photos, id)
    \* ---- year resolution (main.py, get_album_year) ----
    album_name,       \* the album_name argument
    album_timestamp,  \* the album_timestamp argument, seconds since the epoch
    utc_offset,       \* the local time zone's offset from UTC, in seconds
    year_out,         \* [state |-> "called"] or [state |-> "returned", value |-> ...]
    \* ---- main, the client sessions, cache_folders and create_album_links ----
    mode,             \* "cache" (--cache-folders) or "link" (--create-links)
    invocation,       \* how many times the tool has been started
    mpc,              \* where main is
    user,             \* the user whose client get_photos_clients has yielded (0: none yet)
    session,          \* per user: "none", "open" or "closed"
    logouts,          \* per user: the number of session.logout() calls
    bad_user,         \* the user whose get_userinfo() call raises (0: none)
    cache_file,       \* config.CACHE_FILE: "missing" or the dict it holds
    all_folders,      \* the all_folders dict of cache_folders / create_album_links
    albumsOf,         \* per user: what list_albums() returns
    itemsOf,          \* per album id: what list_item_in_albums() returns
    existing_roots,   \* the configured photo roots that exist on disk
    dir_mode,         \* per directory: "ro" (no write permission) or "nosymlink"
    fs,               \* the tree under the working directory: path -> entry
    fs_prev,          \* fs when the previous invocation ended
    albums,           \* create_album_links: albums
    ai,               \* create_album_links: index of the current album
    images,           \* create_album_links: images
    ii,               \* create_album_links: index of the next image
    log,              \* the tqdm.write() messages of this invocation
    symlink_calls,    \* per path: the os.symlink() calls of this invocation
    error             \* the exception that ended this invocation

collectVars == <<remote, is_shared, failing, call>>

yearVars == <<album_name, album_timestamp, utc_offset, year_out>>

envVars == <<mode, bad_user, albumsOf, itemsOf, existing_roots, dir_mode>>

mainVars == <<invocation, mpc, user, session, logouts, cache_file, all_folders,
              fs, fs_prev, albums, ai, images, ii, log, symlink_calls, error>>

vars == <<remote, is_shared, failing, call,
          album_name, album_timestamp, utc_offset, year_out,
          mode, bad_user, albumsOf, itemsOf, existing_roots, dir_mode,
          invocation, mpc, user, session, logouts, cache_file, all_folders,
          fs, fs_prev, albums, ai, images, ii, log, symlink_calls, error>>

(***************************************************************************)
(* Bounds of the model.                                                    *)
(***************************************************************************)
MaxFolders == 4

MaxNameLen == 5

MaxItems == 2

MaxRuns == 2

(***************************************************************************)
(* Python helpers.                                                         *)
(***************************************************************************)
DigitChar(d) ==
    CASE d = 0 -> "0" [] d = 1 -> "1" [] d = 2 -> "2" [] d = 3 -> "3"
      [] d = 4 -> "4" [] d = 5 -> "5" [] d = 6 -> "6" [] d = 7 -> "7"
      [] d = 8 -> "8" [] d = 9 -> "9"

RECURSIVE Str(_)
\* str(n) of a non-negative int: its decimal digits
Str(n) == IF n < 10 THEN <<DigitChar(n)>> ELSE Str(n \div 10) \o <<DigitChar(n % 10)>>

EmptyDict == [k \in {} |-> 0]

\* d.update(r)
DictDropNew(d, r) == d

DictUpdate(d, r) ==
    [k \in DOMAIN d \cup DOMAIN r |-> IF k \in DOMAIN r THEN r[k] ELSE d[k]]

RECURSIVE SortedSeq(_)
SortedSeq(S) ==
    IF S = {} THEN <<>>
    ELSE LET m == CHOOSE x \in S : \A y \in S : x <= y
         IN <<m>> \o SortedSeq(S \ {m})

(***************************************************************************)
(* The remote folder service.  A tree is [n, parent]: folders 1..n, the    *)
(* root is 0, parent[i] < i.  A listing reports the children in id order.  *)
(***************************************************************************)
EmptyTree == [n |-> 0, parent |-> <<>>]

Trees(max) ==
    UNION {{[n |-> n, parent |-> p] :
                p \in {q \in [1..n -> 0..(max - 1)] : \A i \in 1..n : q[i] < i}} :
           n \in 0..max}

FolderName(i) == <<"/", "f">> \o Str(i)

FolderOwner(i) == i % 2

ListOf(tree, fid) ==
    LET kids == SortedSeq({i \in 1..tree.n : tree.parent[i] = fid})
    IN [k \in 1..Len(kids) |->
            [id |-> kids[k], name |-> FolderName(kids[k]),
             owner_user_id |-> FolderOwner(kids[k])]]

\* photos.list_folders(folder_id)["data"]["list"]
list_folders(fid) == ListOf(remote.personal, fid)

\* photos.list_teams_folders(folder_id)["data"]["list"]
list_teams_folders(fid) == ListOf(remote.shared, fid)

list_fn(fid) == IF is_shared THEN list_teams_folders(fid) ELSE list_folders(fid)

FolderIds == 0..(IF is_shared THEN remote.shared.n ELSE remote.personal.n)

(***************************************************************************)
(* collect_folders_recursive.  call[f] is the invocation for folder f:     *)
(*   st = "pending"  submitted to the parent's executor, not yet taken     *)
(*        "listing"  running, its listing call in flight                   *)
(*        "waiting"  running, iterating over its children's results        *)
(*        "done"     returned `folders`                                    *)
(*        "raised"   ended with an exception                               *)
(***************************************************************************)
max_workers == 10

folder_ids(f) == [k \in 1..Len(list_fn(f)) |-> list_fn(f)[k].id]

ParentOf(f) ==
    LET t == IF is_shared THEN remote.shared ELSE remote.personal IN t.parent[f]

\* the tasks of f's executor that a worker thread is executing
Running(f) ==
    {c \in FolderIds \ {0} : ParentOf(c) = f /\ call[c].st \in {"listing", "waiting"}}

NoWorkerLimit(f) == TRUE

\* ThreadPoolExecutor(max_workers=10): a queued task is taken when a worker is free
WorkerFree(f) == Cardinality(Running(f)) < max_workers

\* the executor's work queue is first-in first-out
HeadOfQueue(c) ==
    \A d \in FolderIds \ {0} : (ParentOf(d) = ParentOf(c) /\ d < c) => call[d].st # "pending"

\* the folders of the current level
CurrentLevel(items) ==
    [k \in {Str(items[i].id) : i \in 1..Len(items)} |->
        LET i == CHOOSE j \in 1..Len(items) :
                    /\ Str(items[j].id) = k
                    /\ \A l \in 1..Len(items) : Str(items[l].id) = k => l <= j
        IN <<items[i].name, items[i].owner_user_id>>]

OnListErrorReraise(f) == [st |-> "raised", folders |-> EmptyDict, idx |-> 1]

\* except Exception as error: ... return folders
OnListError(f) == [st |-> "done", folders |-> EmptyDict, idx |-> 1]

\* the caller invokes the collection at the root
CallRoot ==
    /\ call[0].st = "pending"
    /\ call' = [call EXCEPT ![0].st = "listing"]
    /\ UNCHANGED <<remote, is_shared, failing>>
    /\ UNCHANGED <<yearVars, envVars, mainVars>>

\* a worker of the parent's executor takes the task and issues the listing call
StartTask(c) ==
    /\ c # 0
    /\ call[c].st = "pending"
    /\ call[ParentOf(c)].st = "waiting"
    /\ HeadOfQueue(c)
    /\ WorkerFree(ParentOf(c))
    /\ call' = [call EXCEPT ![c].st = "listing"]
    /\ UNCHANGED <<remote, is_shared, failing>>
    /\ UNCHANGED <<yearVars, envVars, mainVars>>

\* the listing call raises
ListFails(f) ==
    /\ call[f].st = "listing"
    /\ f \in failing
    /\ call' = [call EXCEPT ![f] = OnListError(f)]
    /\ UNCHANGED <<remote, is_shared, failing>>
    /\ UNCHANGED <<yearVars, envVars, mainVars>>

\* the listing call returns no items: return folders
ListEmpty(f) ==
    /\ call[f].st = "listing"
    /\ f \notin failing
    /\ Len(list_fn(f)) = 0
    /\ call' = [call EXCEPT ![f] = [st |-> "done", folders |-> EmptyDict, idx |-> 1]]
    /\ UNCHANGED <<remote, is_shared, failing>>
    /\ UNCHANGED <<yearVars, envVars, mainVars>>

\* the listing call returns items: record them and submit every child
ListItems(f) ==
    /\ call[f].st = "listing"
    /\ f \notin failing
    /\ Len(list_fn(f)) > 0
    /\ call' = [call EXCEPT ![f] = [st |-> "waiting",
                                    folders |-> CurrentLevel(list_fn(f)),
                                    idx |-> 1]]
    /\ UNCHANGED <<remote, is_shared, failing>>
    /\ UNCHANGED <<yearVars, envVars, mainVars>>

\* for result in results: folders.update(result), in the order of folder_ids;
\* a child's exception is raised again by the iteration
Merge(f) ==
    /\ call[f].st = "waiting"
    /\ call[f].idx <= Len(folder_ids(f))
    /\ LET c == folder_ids(f)[call[f].idx] IN
        /\ call[c].st \in {"done", "raised"}
        /\ call' = [call EXCEPT ![f] =
                      IF call[c].st = "raised"
                      THEN [st |-> "raised", folders |-> @.folders, idx |-> @.idx]
                      ELSE [st |-> "waiting",
                            folders |-> DictUpdate(@.folders, call[c].folders),
                            idx |-> @.idx + 1]]
    /\ UNCHANGED <<remote, is_shared, failing>>
    /\ UNCHANGED <<yearVars, envVars, mainVars>>

\* every result is merged: the executor shuts down and folders is returned
Return(f) ==
    /\ call[f].st = "waiting"
    /\ call[f].idx > Len(folder_ids(f))
    /\ call' = [call EXCEPT ![f].st = "done"]
    /\ UNCHANGED <<remote, is_shared, failing>>
    /\ UNCHANGED <<yearVars, envVars, mainVars>>

PendingCalls(ids) == [f \in ids |-> [st |-> "pending", folders |-> EmptyDict, idx |-> 1]]

(***************************************************************************)
(* get_album_year (main.py).  \d of a str pattern matches every Unicode    *)
(* decimal digit; "U+0663" stands for one that is not ASCII.               *)
(***************************************************************************)
IsDigit(c) == c \in {"0", "1", "2", "3", "4", "5", "6", "7", "8", "9", "U+0663"}

\* re.match(r"^(\d{4})", album_name): the group, or <<>> for no match
MatchFourDigits(name) ==
    IF Len(name) >= 4 /\ \A i \in 1..4 : IsDigit(name[i])
    THEN SubSeq(name, 1, 4) ELSE <<>>

MatchAnyTwoDigits(name) ==
    IF Len(name) >= 2 /\ IsDigit(name[1]) /\ IsDigit(name[2])
    THEN SubSeq(name, 1, 2) ELSE <<>>

\* re.match(r"^(2\d)", album_name): the group, or <<>> for no match
MatchTwoDigits(name) ==
    IF Len(name) >= 2 /\ name[1] = "2" /\ IsDigit(name[2])
    THEN SubSeq(name, 1, 2) ELSE <<>>

IsLeap(y) == y % 4 = 0 /\ (y % 100 # 0 \/ y % 400 = 0)

DaysInYear(y) == IF IsLeap(y) THEN 366 ELSE 365

RECURSIVE YearOfDay(_, _)
\* the year of the day that lies `days` days after 1 January of year y
YearOfDay(days, y) ==
    IF days < DaysInYear(y) THEN y ELSE YearOfDay(days - DaysInYear(y), y + 1)

\* datetime.datetime.fromtimestamp(album_timestamp).year, in local time
LocalYear(ts, offset) == YearOfDay((ts + offset) \div 86400, 1970)

get_album_year(ts, name) ==
    IF MatchFourDigits(name) # <<>> THEN MatchFourDigits(name)
    ELSE IF MatchTwoDigits(name) # <<>> THEN <<"2", "0">> \o MatchTwoDigits(name)
    ELSE Str(LocalYear(ts, utc_offset))

NameChars == {"2", "1", "x", "U+0663"}

Names(max) == UNION {[1..n -> NameChars] : n \in 0..max}

\* 2021-06-01 00:00:00 UTC, and the seconds around the turn of 2022 to 2023
Timestamps == {1622505600, 1672531199, 1672531200}

UtcOffsets == {0, 3600, 0 - 18000}

ResolveYear ==
    /\ year_out.state = "called"
    /\ year_out' = [state |-> "returned",
                    value |-> get_album_year(album_timestamp, album_name)]
    /\ UNCHANGED <<album_name, album_timestamp, utc_offset>>
    /\ UNCHANGED <<collectVars, envVars, mainVars>>

(***************************************************************************)
(* The configuration, as the template of dump_default_config sets it.      *)
(***************************************************************************)
NumUsers == 2

Users == 1..NumUsers

\* PHOTO_ROOTS: owner id -> the absolute path of the owner's photo root
PHOTO_ROOTS ==
    [o \in {0, 2} |->
        IF o = 0 THEN <<"/Volumes/homes/User1/Photos">>
                 ELSE <<"/Volumes/homes/User2/Photos">>]

(***************************************************************************)
(* The file system.  A path is a tuple of components (pathlib.Path); fs    *)
(* maps the paths that exist to [kind |-> "dir"], [kind |-> "file"] or     *)
(* [kind |-> "link", target |-> path].  A photo root that exists holds the *)
(* photos the service reports.                                             *)
(***************************************************************************)
RECURSIVE Join(_)
\* the characters of a Python string as one path component
Join(chars) == IF chars = <<>> THEN "" ELSE Head(chars) \o Join(Tail(chars))

\* album["name"].replace("/", "_")
ReplaceSlash(name) == [i \in 1..Len(name) |-> IF name[i] = "/" THEN "_" ELSE name[i]]

Parent(path) == SubSeq(path, 1, Len(path) - 1)

DirModeOf(path) == IF Parent(path) \in DOMAIN dir_mode THEN dir_mode[Parent(path)] ELSE "rw"

Remove(f, path) == [q \in DOMAIN f \ {path} |-> f[q]]

Put(f, path, entry) == [q \in DOMAIN f \cup {path} |-> IF q = path THEN entry ELSE f[q]]

\* path.mkdir(parents=True, exist_ok=True)
Mkdir(f, path) ==
    [q \in DOMAIN f \cup {SubSeq(path, 1, n) : n \in 1..Len(path)} |->
        IF q \in DOMAIN f THEN f[q] ELSE [kind |-> "dir"]]

\* whether a link with this target leads to something that exists
Resolves(f, target) ==
    IF target[1] = ".."
    THEN LET owner_link == <<"albums", "users", target[4]>> IN
         /\ owner_link \in DOMAIN f
         /\ f[owner_link].kind = "link" => f[owner_link].target \in existing_roots
    ELSE target \in existing_roots

\* path.exists(): follows symbolic links, so a dangling link does not exist
Exists(f, path) ==
    /\ path \in DOMAIN f
    /\ f[path].kind = "link" => Resolves(f, f[path].target)

\* try: link_path.unlink() except: pass -- removes a link or a regular file
Unlink(f, path) ==
    IF path \in DOMAIN f /\ f[path].kind \in {"link", "file"} /\ DirModeOf(path) # "ro"
    THEN Remove(f, path) ELSE f

\* os.symlink(src, dst): the OSError it raises, or "" when the link is made
SymlinkErrno(f, dst) ==
    IF dst \in DOMAIN f THEN "EEXIST"
    ELSE IF DirModeOf(dst) = "ro" THEN "EACCES"
    ELSE IF DirModeOf(dst) = "nosymlink" THEN "EPERM"
    ELSE ""

\* tqdm.write(f"Error creating symlink for {image['filename']}: {e}")
SymlinkMessage(filename, errno, dst) == [filename |-> filename, errno |-> errno, dst |-> dst]

SymlinkAlways(st, filename, src, dst) ==
    LET errno == SymlinkErrno(st.fs, dst)
        calls == [q \in DOMAIN st.calls \cup {dst} |->
                    (IF q \in DOMAIN st.calls THEN st.calls[q] ELSE 0)
                    + (IF q = dst THEN 1 ELSE 0)]
    IN [fs    |-> IF errno = "" THEN Put(st.fs, dst, [kind |-> "link", target |-> src])
                  ELSE st.fs,
        log   |-> IF errno = "" THEN st.log
                  ELSE Append(st.log, SymlinkMessage(filename, errno, dst)),
        calls |-> calls]

\* try: if not dst.exists(): os.symlink(src, dst)
\* except OSError as e: tqdm.write(...)
\* on st = [fs, log, calls]
SymlinkIfNotExists(st, filename, src, dst) ==
    IF Exists(st.fs, dst) THEN st ELSE SymlinkAlways(st, filename, src, dst)

(***************************************************************************)
(* get_photos_clients and the loop that consumes it.  The generator is     *)
(* resumed only when the loop asks for the next client: the logout of the  *)
(* client it yielded runs then, and never when the loop body raised.       *)
(***************************************************************************)
Ended == mpc \in {"exited", "crashed"}

NoError == [kind |-> "none"]

Crash(e) ==
    /\ mpc' = "crashed"
    /\ error' = e

\* CustomPhotos.logout
Logout(u) ==
    /\ session' = [session EXCEPT ![u] = IF @ = "open" THEN "closed" ELSE @]
    /\ logouts' = [logouts EXCEPT ![u] = IF session[u] = "open" THEN @ + 1 ELSE @]

\* the for loop takes the next client: the generator logs the last one out,
\* then creates and yields the next, or is exhausted
NextClient ==
    /\ mpc = "clients"
    /\ IF user < NumUsers
       THEN /\ user' = user + 1
            /\ session' = [u \in Users |->
                            IF u = user + 1 THEN "open"
                            ELSE IF u = user /\ session[u] = "open" THEN "closed"
                            ELSE session[u]]
            /\ logouts' = [u \in Users |->
                            IF u = user /\ session[u] = "open" THEN logouts[u] + 1
                            ELSE logouts[u]]
            /\ mpc' = IF mode = "link" THEN "create_album_links" ELSE "cache_user"
       ELSE /\ Logout(user)
            /\ user' = user
            /\ mpc' = IF mode = "link" THEN "exited" ELSE "write_cache"
    /\ UNCHANGED <<invocation, cache_file, all_folders, fs, fs_prev, albums, ai,
                   images, ii, log, symlink_calls, error>>
    /\ UNCHANGED <<collectVars, yearVars, envVars>>

(***************************************************************************)
(* cache_folders.                                                          *)
(***************************************************************************)
RECURSIVE Collected(_, _)
RECURSIVE MergeChildren(_, _, _, _)

\* the result of collect_folders_recursive(photos, f) on a tree
Collected(tree, f) ==
    IF f \in failing \/ Len(ListOf(tree, f)) = 0 THEN EmptyDict
    ELSE MergeChildren(tree, ListOf(tree, f), 1, CurrentLevel(ListOf(tree, f)))

MergeChildren(tree, items, k, folders) ==
    IF k > Len(items) THEN folders
    ELSE MergeChildren(tree, items, k + 1,
                       DictUpdate(folders, Collected(tree, items[k].id)))

\* one round of the loop of cache_folders, for the client just yielded
CacheUser ==
    /\ mpc = "cache_user"
    /\ IF user = bad_user
       THEN /\ Crash([kind |-> "api_error", call |-> "get_userinfo"])
            /\ UNCHANGED all_folders
       ELSE IF 0 \in failing
       THEN /\ Crash([kind |-> "api_error", call |-> "list_folders"])
            /\ UNCHANGED all_folders
       ELSE /\ all_folders' = DictUpdate(DictUpdate(all_folders,
                                                    Collected(remote.personal, 0)),
                                         Collected(remote.shared, 0))
            /\ mpc' = "clients"
            /\ UNCHANGED error
    /\ UNCHANGED <<invocation, user, session, logouts, cache_file, fs, fs_prev,
                   albums, ai, images, ii, log, symlink_calls>>
    /\ UNCHANGED <<collectVars, yearVars, envVars>>

\* json.dump(all_folders, f) after the loop
WriteCache ==
    /\ mpc = "write_cache"
    /\ cache_file' = [exists |-> TRUE, data |-> all_folders]
    /\ mpc' = "exited"
    /\ UNCHANGED <<invocation, user, session, logouts, all_folders, fs, fs_prev,
                   albums, ai, images, ii, log, symlink_calls, error>>
    /\ UNCHANGED <<collectVars, yearVars, envVars>>

(***************************************************************************)
(* create_album_links.                                                     *)
(***************************************************************************)
\* cache.load_cached_folders(config) and photos.list_albums()
BeginLinks ==
    /\ mpc = "create_album_links"
    /\ IF ~cache_file.exists
       THEN /\ Crash([kind |-> "exit", code |-> 1])
            /\ UNCHANGED <<all_folders, albums, ai, images, ii>>
       ELSE /\ all_folders' = cache_file.data
            /\ albums' = albumsOf[user]
            /\ ai' = 0
            /\ images' = <<>>
            /\ ii' = 1
            /\ mpc' = "albums"
            /\ UNCHANGED error
    /\ UNCHANGED <<invocation, user, session, logouts, cache_file, fs, fs_prev,
                   log, symlink_calls>>
    /\ UNCHANGED <<collectVars, yearVars, envVars>>

\* pathlib.Path("albums") / get_album_year(...) / album["name"].replace("/", "_")
AlbumPath(album) ==
    <<"albums", Join(get_album_year(album.create_time, album.name)),
      Join(ReplaceSlash(album.name))>>

\* the next album: make its directory and list its items
NextAlbum ==
    /\ mpc = "albums"
    /\ ii > Len(images)
    /\ ai < Len(albums)
    /\ ai' = ai + 1
    /\ fs' = Mkdir(fs, AlbumPath(albums[ai + 1]))
    /\ images' = itemsOf[albums[ai + 1].id]
    /\ ii' = 1
    /\ UNCHANGED <<invocation, mpc, user, session, logouts, cache_file, all_folders,
                   fs_prev, albums, log, symlink_calls, error>>
    /\ UNCHANGED <<collectVars, yearVars, envVars>>

FolderKey(image) == Str(image.folder_id)

OwnerLinkPath(owner) == <<"albums", "users", Join(Str(owner))>>

LinkPath(album, image) == Append(AlbumPath(album), image.filename)

\* pathlib.Path("../../") / "users" / f"{image_owner_id}" / folder_name[1:] / filename
SourcePath(image, folder_name) ==
    <<"..", "..", "users", Join(Str(image.owner_user_id)),
      Join(Tail(folder_name)), image.filename>>

\* the owner's root link: mkdir of albums/users, then the guarded os.symlink
AfterOwnerLink(image) ==
    SymlinkIfNotExists(
        [fs |-> Mkdir(fs, Parent(OwnerLinkPath(image.owner_user_id))),
         log |-> log, calls |-> symlink_calls],
        image.filename,
        PHOTO_ROOTS[image.owner_user_id],
        OwnerLinkPath(image.owner_user_id))

ExistsBeforeUnlink(before, after, path) == Exists(before, path)

\* the link_path.exists() test follows the unlink
ExistsForItemLink(before, after, path) == Exists(after, path)

\* the item's link: unlink what is there, then the guarded os.symlink
AfterItemLink(st, album, image, folder_name) ==
    LET link_path == LinkPath(album, image)
        unlinked  == [st EXCEPT !.fs = Unlink(st.fs, link_path)]
    IN IF ExistsForItemLink(st.fs, unlinked.fs, link_path) THEN unlinked
       ELSE SymlinkAlways(unlinked, image.filename,
                          SourcePath(image, folder_name), link_path)

FolderMissingError(album, image) ==
    [kind |-> "assert_folder_id", folder_id |-> FolderKey(image),
     filename |-> image.filename, album |-> album.name]

NoPhotoRootError(album, image, owner_id) ==
    [kind |-> "assert_photo_root", owner_id |-> owner_id,
     filename |-> image.filename, album |-> album.name]

OwnerMismatchError(album, image, owner_id) ==
    [kind |-> "assert_owner_id", image_owner_id |-> image.owner_user_id,
     owner_id |-> owner_id, filename |-> image.filename, album |-> album.name]

FolderCheckLate(image) == TRUE

\* assert folder_id in all_folders, the first statement of the loop body
FolderCheck(image) == FolderKey(image) \in DOMAIN all_folders

OwnerCheckSkipped(image_owner_id, owner_id) == TRUE

\* assert image_owner_id == owner_id
OwnerCheck(image_owner_id, owner_id) == image_owner_id = owner_id

\* the body of the loop over the images, for images[ii]
ProcessItem ==
    /\ mpc = "albums"
    /\ ii <= Len(images)
    /\ LET album == albums[ai]
           image == images[ii]
       IN
       IF ~FolderCheck(image)
       THEN /\ Crash(FolderMissingError(album, image))
            /\ UNCHANGED <<fs, log, symlink_calls, ii>>
       ELSE IF image.owner_user_id \notin DOMAIN PHOTO_ROOTS
       THEN /\ Crash([kind |-> "KeyError", key |-> image.owner_user_id])
            /\ UNCHANGED <<fs, log, symlink_calls, ii>>
       ELSE
       LET st1 == AfterOwnerLink(image) IN
       IF FolderKey(image) \notin DOMAIN all_folders
       THEN /\ Crash([kind |-> "KeyError", key |-> FolderKey(image)])
            /\ fs' = st1.fs /\ log' = st1.log /\ symlink_calls' = st1.calls
            /\ UNCHANGED ii
       ELSE
       LET folder_name == all_folders[FolderKey(image)][1]
           owner_id    == all_folders[FolderKey(image)][2]
       IN
       IF owner_id \notin DOMAIN PHOTO_ROOTS
       THEN /\ Crash(NoPhotoRootError(album, image, owner_id))
            /\ fs' = st1.fs /\ log' = st1.log /\ symlink_calls' = st1.calls
            /\ UNCHANGED ii
       ELSE IF ~OwnerCheck(image.owner_user_id, owner_id)
       THEN /\ Crash(OwnerMismatchError(album, image, owner_id))
            /\ fs' = st1.fs /\ log' = st1.log /\ symlink_calls' = st1.calls
            /\ UNCHANGED ii
       ELSE LET st2 == AfterItemLink(st1, album, image, folder_name) IN
            /\ fs' = st2.fs /\ log' = st2.log /\ symlink_calls' = st2.calls
            /\ ii' = ii + 1
            /\ UNCHANGED <<mpc, error>>
    /\ UNCHANGED <<invocation, user, session, logouts, cache_file, all_folders,
                   fs_prev, albums, ai, images>>
    /\ UNCHANGED <<collectVars, yearVars, envVars>>

\* every album is done: create_album_links returns to the loop of main
EndLinks ==
    /\ mpc = "albums"
    /\ ii > Len(images)
    /\ ai = Len(albums)
    /\ mpc' = "clients"
    /\ UNCHANGED <<invocation, user, session, logouts, cache_file, all_folders,
                   fs, fs_prev, albums, ai, images, ii, log, symlink_calls, error>>
    /\ UNCHANGED <<collectVars, yearVars, envVars>>

\* the tool is started again, on the file system and the cache file it left
Reinvoke ==
    /\ Ended
    /\ invocation < MaxRuns
    /\ invocation' = invocation + 1
    /\ fs_prev' = fs
    /\ mpc' = "clients"
    /\ user' = 0
    /\ session' = [u \in Users |-> "none"]
    /\ logouts' = [u \in Users |-> 0]
    /\ all_folders' = EmptyDict
    /\ albums' = <<>>
    /\ ai' = 0
    /\ images' = <<>>
    /\ ii' = 1
    /\ log' = <<>>
    /\ symlink_calls' = EmptyDict
    /\ error' = NoError
    /\ UNCHANGED <<cache_file, fs>>
    /\ UNCHANGED <<collectVars, yearVars, envVars>>

(***************************************************************************)
(* Initial states.  Each specification runs one part of the program and    *)
(* leaves the variables of the other parts at rest.                        *)
(***************************************************************************)
IdleCollect ==
    /\ is_shared = FALSE
    /\ remote = [personal |-> EmptyTree, shared |-> EmptyTree]
    /\ failing = {}
    /\ call = PendingCalls({0})

IdleYear ==
    /\ album_name = <<>>
    /\ album_timestamp = 0
    /\ utc_offset = 0
    /\ year_out = [state |-> "called"]

StartOfMain ==
    /\ invocation = 1
    /\ mpc = "clients"
    /\ user = 0
    /\ session = [u \in Users |-> "none"]
    /\ logouts = [u \in Users |-> 0]
    /\ all_folders = EmptyDict
    /\ albums = <<>>
    /\ ai = 0
    /\ images = <<>>
    /\ ii = 1
    /\ log = <<>>
    /\ symlink_calls = EmptyDict
    /\ error = NoError

IdleMain ==
    /\ StartOfMain
    /\ mode = "link"
    /\ bad_user = 0
    /\ cache_file = [exists |-> FALSE]
    /\ albumsOf = [u \in Users |-> <<>>]
    /\ itemsOf = EmptyDict
    /\ existing_roots = {}
    /\ dir_mode = EmptyDict
    /\ fs = EmptyDict
    /\ fs_prev = EmptyDict

InitCollect ==
    /\ IdleYear
    /\ IdleMain
    /\ is_shared \in BOOLEAN
    /\ \E t \in Trees(MaxFolders) :
        /\ remote = IF is_shared THEN [personal |-> EmptyTree, shared |-> t]
                                 ELSE [personal |-> t, shared |-> EmptyTree]
        /\ failing \in SUBSET (0..t.n)
        /\ call = PendingCalls(0..t.n)

NextCollect ==
    \/ CallRoot
    \/ \E f \in FolderIds : StartTask(f)
    \/ \E f \in FolderIds : ListFails(f)
    \/ \E f \in FolderIds : ListEmpty(f)
    \/ \E f \in FolderIds : ListItems(f)
    \/ \E f \in FolderIds : Merge(f)
    \/ \E f \in FolderIds : Return(f)

SpecCollect == InitCollect /\ [][NextCollect]_vars

(***************************************************************************)
(* A folder with more children than the executor has workers, beside a     *)
(* sibling: the nested executors of two levels are busy at once.           *)
(***************************************************************************)
WideTree ==
    [n |-> max_workers + 3,
     parent |-> [i \in 1..(max_workers + 3) |-> IF i <= 2 THEN 0 ELSE 1]]

InitPool ==
    /\ IdleYear
    /\ IdleMain
    /\ is_shared = FALSE
    /\ remote = [personal |-> WideTree, shared |-> EmptyTree]
    /\ failing \in {{}, {WideTree.n}}
    /\ call = PendingCalls(0..WideTree.n)

SpecPool == InitPool /\ [][NextCollect]_vars

InitYear ==
    /\ IdleCollect
    /\ IdleMain
    /\ album_name \in Names(MaxNameLen)
    /\ album_timestamp \in Timestamps
    /\ utc_offset \in UtcOffsets
    /\ year_out = [state |-> "called"]

NextYear == ResolveYear

SpecYear == InitYear /\ [][NextYear]_vars

(***************************************************************************)
(* The environments of main: what the service holds, what the cache file   *)
(* holds and what is on disk when the tool is started.                     *)
(***************************************************************************)
AlbumA == [id |-> 1, name |-> <<"2", "3", "x">>, owner_user_id |-> 0,
           create_time |-> 1672531200]

AlbumB == [id |-> 2, name |-> <<"x", "/", "y">>, owner_user_id |-> 2,
           create_time |-> 1622505600]

ItemB == [filename |-> "q.jpg", folder_id |-> 2, owner_user_id |-> 2]

Items ==
    {[filename |-> "p.jpg", folder_id |-> 1, owner_user_id |-> 0],
     [filename |-> "q.jpg", folder_id |-> 1, owner_user_id |-> 0],
     [filename |-> "q.jpg", folder_id |-> 1, owner_user_id |-> 1],
     [filename |-> "p.jpg", folder_id |-> 2, owner_user_id |-> 2]}

ItemLists(max) == UNION {[1..n -> Items] : n \in 0..max}

AlbumAssignments ==
    {<<(<<AlbumA>>), (<<>>)>>, <<(<<AlbumA, AlbumB>>), (<<AlbumA>>)>>,
     <<(<<AlbumB>>), (<<AlbumB, AlbumA>>)>>}

\* a cache file: folder 1 of some owner, folder 2 of owner 2 or not cached
CacheFiles ==
    {[exists |-> FALSE]} \cup
    {[exists |-> TRUE,
      data |-> [k \in {Str(1)} \cup (IF has2 THEN {Str(2)} ELSE {}) |->
                    IF k = Str(1) THEN <<FolderName(1), o1>> ELSE <<FolderName(2), 2>>]] :
        o1 \in {0, 1, 2}, has2 \in BOOLEAN}

AllRoots == {PHOTO_ROOTS[o] : o \in DOMAIN PHOTO_ROOTS}

OccupiedPath == Append(AlbumPath(AlbumA), "p.jpg")

StaleLink == [kind |-> "link", target |-> <<"..", "..", "users", "2", "old", "p.jpg">>]

\* what lies at OccupiedPath from earlier, and the state of its directory
DiskStates ==
    {<<e, m>> : e \in {[kind |-> "absent"], [kind |-> "file"], [kind |-> "dir"], StaleLink},
                m \in {"rw", "ro", "nosymlink"}}

InitLinkMode ==
    /\ mode = "link"
    /\ bad_user = 0
    /\ IdleCollect
    /\ cache_file \in CacheFiles
    /\ albumsOf \in AlbumAssignments
    /\ \E l \in ItemLists(MaxItems) : itemsOf = [id \in {1, 2} |-> IF id = 1 THEN l ELSE <<ItemB>>]
    /\ existing_roots \in {AllRoots, {PHOTO_ROOTS[2]}}
    /\ \E d \in DiskStates :
        /\ dir_mode = [q \in (IF d[2] = "rw" THEN {} ELSE {AlbumPath(AlbumA)}) |-> d[2]]
        /\ fs = IF d[1].kind = "absent"
                THEN (IF d[2] = "rw" THEN EmptyDict ELSE Mkdir(EmptyDict, AlbumPath(AlbumA)))
                ELSE Put(Mkdir(EmptyDict, AlbumPath(AlbumA)), OccupiedPath, d[1])
    /\ fs_prev = fs

\* the trees of the repository's test fixture
FixturePersonal == [n |-> 3, parent |-> <<0, 0, 1>>]

FixtureShared == [n |-> 2, parent |-> <<0, 1>>]

InitCacheMode ==
    /\ mode = "cache"
    /\ bad_user \in 0..NumUsers
    /\ is_shared = FALSE
    /\ remote = [personal |-> FixturePersonal, shared |-> FixtureShared]
    /\ failing \in {{}, {0}, {1}}
    /\ call = PendingCalls({0})
    /\ cache_file \in {[exists |-> FALSE], [exists |-> TRUE, data |-> EmptyDict]}
    /\ albumsOf = [u \in Users |-> <<>>]
    /\ itemsOf = EmptyDict
    /\ existing_roots = AllRoots
    /\ dir_mode = EmptyDict
    /\ fs = EmptyDict
    /\ fs_prev = EmptyDict

InitMain ==
    /\ IdleYear
    /\ StartOfMain
    /\ InitLinkMode \/ InitCacheMode

NextMain ==
    \/ NextClient
    \/ CacheUser
    \/ WriteCache
    \/ BeginLinks
    \/ NextAlbum
    \/ ProcessItem
    \/ EndLinks
    \/ Reinvoke

SpecMain == InitMain /\ [][NextMain]_vars

(***************************************************************************)
(* Claims about the folder collection.                                     *)
(***************************************************************************)
RECURSIVE Closure(_)
\* the folder ids reachable from S by repeated one-level listing
Closure(S) ==
    LET more == S \cup UNION {{list_fn(f)[k].id : k \in 1..Len(list_fn(f))} : f \in S}
    IN IF more = S THEN S ELSE Closure(more)

Reachable == Closure({0}) \ {0}

\* what the parent's listing reported for folder i
Reported(i) ==
    LET items == list_fn(ParentOf(i))
        k == CHOOSE j \in 1..Len(items) : items[j].id = i
    IN <<items[k].name, items[k].owner_user_id>>

RECURSIVE Ancestors(_)
Ancestors(i) == IF i = 0 THEN {} ELSE {ParentOf(i)} \cup Ancestors(ParentOf(i))

\* the folders a successful listing reported, all of whose ancestors' listings succeeded
Live == {i \in Reachable : Ancestors(i) \cap failing = {}}

\* C1: when every listing call succeeds, the mapping the root call returns has
\* exactly the string ids of the folders reachable from the root as its keys,
\* each mapped to the (name, owner id) its parent's listing reported, whatever
\* the interleaving of the sibling tasks was.
C1_CollectsReachable ==
    (failing = {} /\ call[0].st \in {"done", "raised"}) =>
        /\ call[0].st = "done"
        /\ DOMAIN call[0].folders = {Str(i) : i \in Reachable}
        /\ \A i \in Reachable : call[0].folders[Str(i)] = Reported(i)

\* two sibling subtrees, both with children, collected without a failure
C1_Witness ==
    /\ failing = {}
    /\ call[0].st = "done"
    /\ \E a, b \in FolderIds \ {0} :
        /\ a # b /\ ParentOf(a) = 0 /\ ParentOf(b) = 0
        /\ Len(list_fn(a)) > 0 /\ Len(list_fn(b)) > 0

\* C2: a failing listing call never raises to the caller; the returned mapping
\* holds exactly the entries reported by successful listings whose ancestors'
\* listings all succeeded, and is empty when the root's listing fails.
C2_PartialFailure ==
    /\ \A f \in FolderIds : call[f].st # "raised"
    /\ call[0].st = "done" =>
        /\ DOMAIN call[0].folders = {Str(i) : i \in Live}
        /\ \A i \in Live : call[0].folders[Str(i)] = Reported(i)
        /\ 0 \in failing => call[0].folders = EmptyDict

\* a listed folder with children fails while a sibling branch with children succeeds
C2_Witness ==
    /\ call[0].st = "done"
    /\ 0 \notin failing
    /\ \E a, b \in FolderIds \ {0} :
        /\ a # b /\ ParentOf(a) = 0 /\ ParentOf(b) = 0
        /\ a \in failing /\ Len(list_fn(a)) > 0
        /\ b \notin failing /\ Len(list_fn(b)) > 0
        /\ call[a].st = "done" /\ call[b].st = "done"

\* the listing calls in flight, and the worker threads executing a task
InFlight == {f \in FolderIds : call[f].st = "listing"}

WorkerThreads == {f \in FolderIds \ {0} : call[f].st \in {"listing", "waiting"}}

\* C10 as claimed: at most 10 listing calls in flight and at most 10 worker
\* threads executing collection tasks, at every point of one collection.
C10_AtMostTenOverall ==
    /\ Cardinality(InFlight) <= max_workers
    /\ Cardinality(WorkerThreads) <= max_workers

\* C10 as amended: each executor, one per folder with children, runs at most
\* 10 of that folder's child tasks at a time.
C10_AtMostTenPerExecutor ==
    \A f \in FolderIds : Cardinality(Running(f)) <= max_workers

\* one executor is full with a task still queued, and a second level adds to it
C10_Witness ==
    /\ \E f \in FolderIds :
        /\ Cardinality(Running(f)) = max_workers
        /\ \E c \in FolderIds \ {0} : ParentOf(c) = f /\ call[c].st = "pending"
    /\ Cardinality(InFlight) > max_workers

(***************************************************************************)
(* Claims about the year resolution.                                       *)
(***************************************************************************)
\* the days from 1 January 1970 to 1 January of year y
DaysBefore(y) ==
    365 * (y - 1970) + (y - 1969) \div 4 - (y - 1901) \div 100 + (y - 1601) \div 400

\* y is the local calendar year of the creation timestamp
IsYearOfTimestamp(y) ==
    /\ DaysBefore(y) * 86400 <= album_timestamp + utc_offset
    /\ album_timestamp + utc_offset < DaysBefore(y + 1) * 86400

StartsWithDigits(name, n) == Len(name) >= n /\ \A i \in 1..n : IsDigit(name[i])

\* C5 as claimed: four leading digits are the year; otherwise any two leading
\* digits give "20" followed by them; otherwise the year of the timestamp.
C5_AnyTwoDigits ==
    year_out.state = "returned" =>
        IF StartsWithDigits(album_name, 4)
        THEN year_out.value = SubSeq(album_name, 1, 4)
        ELSE IF StartsWithDigits(album_name, 2)
        THEN year_out.value = <<"2", "0">> \o SubSeq(album_name, 1, 2)
        ELSE \E y \in 1970..2037 : IsYearOfTimestamp(y) /\ year_out.value = Str(y)

\* C5 as amended: the two-digit rule applies only when the first character is
\* "2" and the second a digit; every other name without four leading digits,
\* also one starting with two other digits, gets the year of the timestamp.
C5_TwoDigitsFromTwenty ==
    year_out.state = "returned" =>
        IF StartsWithDigits(album_name, 4)
        THEN year_out.value = SubSeq(album_name, 1, 4)
        ELSE IF StartsWithDigits(album_name, 2) /\ album_name[1] = "2"
        THEN year_out.value = <<"2", "0">> \o SubSeq(album_name, 1, 2)
        ELSE \E y \in 1970..2037 : IsYearOfTimestamp(y) /\ year_out.value = Str(y)

\* a name starting with two digits that are not "2x", resolved by the timestamp
C5_Witness ==
    /\ year_out.state = "returned"
    /\ StartsWithDigits(album_name, 2)
    /\ ~StartsWithDigits(album_name, 4)
    /\ album_name[1] = "1"
    /\ year_out.value = <<"2", "0", "2", "2">>
    /\ album_timestamp = 1672531200
(***************************************************************************)
(* Claims about create_album_links and the client sessions.                *)
(***************************************************************************)
\* create_album_links is about to run the loop body for images[ii]
AtItem == mpc = "albums" /\ ii <= Len(images)

CurAlbum == albums[ai]

CurImage == images[ii]

CurLinkPath == LinkPath(CurAlbum, CurImage)

EntryAt(f, path) == IF path \in DOMAIN f THEN f[path] ELSE [kind |-> "absent"]

CallsOf(calls, path) == IF path \in DOMAIN calls THEN calls[path] ELSE 0

\* C3: an item whose folder id is not in the loaded cache stops the run with
\* an error naming the folder id, the filename and the album; that step and
\* every later step of the run change nothing on disk, and no later item,
\* album or client is processed.
C3_MissingFolderStops ==
    [][/\ (AtItem /\ FolderKey(CurImage) \notin DOMAIN all_folders) =>
            /\ mpc' = "crashed"
            /\ error' = [kind |-> "assert_folder_id",
                         folder_id |-> Str(CurImage.folder_id),
                         filename |-> CurImage.filename,
                         album |-> CurAlbum.name]
            /\ fs' = fs
            /\ symlink_calls' = symlink_calls
       /\ (error.kind = "assert_folder_id" /\ invocation' = invocation) =>
            /\ fs' = fs
            /\ <<ai, ii, user, session>>' = <<ai, ii, user, session>>
      ]_vars

\* the run stopped on a missing folder id with a later item still to come
C3_Witness ==
    /\ mpc = "crashed"
    /\ error.kind = "assert_folder_id"
    /\ ii < Len(images)
    /\ symlink_calls = EmptyDict

\* the item's owner differs from the owner of its cached folder record
OwnerMismatch(image) ==
    /\ FolderKey(image) \in DOMAIN all_folders
    /\ all_folders[FolderKey(image)][2] # image.owner_user_id

\* C4 as claimed: every item whose owner differs from its folder record's
\* owner is aborted with the owner-mismatch error naming both ids, the
\* filename and the album, and nothing changes at the item's link path.
C4_AlwaysMismatchError ==
    [][(AtItem /\ OwnerMismatch(CurImage)) =>
            /\ mpc' = "crashed"
            /\ error' = [kind |-> "assert_owner_id",
                         image_owner_id |-> CurImage.owner_user_id,
                         owner_id |-> all_folders[FolderKey(CurImage)][2],
                         filename |-> CurImage.filename,
                         album |-> CurAlbum.name]
            /\ EntryAt(fs', CurLinkPath) = EntryAt(fs, CurLinkPath)
      ]_vars

\* C4 as amended: such an item always stops the run with nothing changed at
\* its link path; the error is the owner-mismatch error when both owner ids
\* have a configured photo root, a KeyError on the item's owner id when that
\* id has none, and the no-photo-root error when only the folder's owner has none.
C4_MismatchAborts ==
    [][(AtItem /\ OwnerMismatch(CurImage)) =>
            /\ mpc' = "crashed"
            /\ EntryAt(fs', CurLinkPath) = EntryAt(fs, CurLinkPath)
            /\ error' =
                IF CurImage.owner_user_id \notin DOMAIN PHOTO_ROOTS
                THEN [kind |-> "KeyError", key |-> CurImage.owner_user_id]
                ELSE IF all_folders[FolderKey(CurImage)][2] \notin DOMAIN PHOTO_ROOTS
                THEN [kind |-> "assert_photo_root",
                      owner_id |-> all_folders[FolderKey(CurImage)][2],
                      filename |-> CurImage.filename,
                      album |-> CurAlbum.name]
                ELSE [kind |-> "assert_owner_id",
                      image_owner_id |-> CurImage.owner_user_id,
                      owner_id |-> all_folders[FolderKey(CurImage)][2],
                      filename |-> CurImage.filename,
                      album |-> CurAlbum.name]
      ]_vars

\* the run stopped on an owner mismatch, after the owner's root link was made
C4_Witness ==
    /\ mpc = "crashed"
    /\ error.kind = "assert_owner_id"
    /\ error.image_owner_id # error.owner_id
    /\ OwnerLinkPath(error.image_owner_id) \in DOMAIN fs
    /\ LinkPath(albums[ai], images[ii]) \notin DOMAIN fs

\* the symbolic links on disk and their targets
Links(f) == [p \in {q \in DOMAIN f : f[q].kind = "link"} |-> f[p].target]

\* C6: when the tool is run again on the same albums, items, cache file and
\* configuration, the symbolic links and their targets at the end of the
\* second run are those at the end of the first.
C6_SecondRunChangesNoLink ==
    (mode = "link" /\ invocation >= 2 /\ Ended) => Links(fs) = Links(fs_prev)

\* a second run that completed and made an item link again
C6_Witness ==
    /\ mode = "link"
    /\ invocation = 2
    /\ mpc = "exited"
    /\ \E p \in DOMAIN symlink_calls :
        /\ Len(p) = 4
        /\ p \in DOMAIN fs
        /\ fs[p].kind = "link"
        /\ p \in DOMAIN fs_prev
        /\ fs_prev[p] = fs[p]

\* C7: once a link is present at albums/users/<owner_id>, resolving or not,
\* it is never replaced, no os.symlink is attempted on it and no error is
\* written for it.
C7_OwnerLinkNeverRetried ==
    [][\A o \in DOMAIN PHOTO_ROOTS :
          LET p == OwnerLinkPath(o) IN
          (p \in DOMAIN fs /\ fs[p].kind = "link") =>
            /\ p \in DOMAIN fs' /\ fs'[p] = fs[p]
            /\ invocation' = invocation =>
                /\ CallsOf(symlink_calls', p) = CallsOf(symlink_calls, p)
                /\ \A k \in 1..Len(log') : k > Len(log) => log'[k].dst # p
      ]_vars

\* C8: when a run of either mode has ended, normally or on a fatal error,
\* every client session that was created has been logged out exactly once.
C8_EverySessionLoggedOut ==
    Ended => \A u \in Users :
                /\ session[u] # "open"
                /\ logouts[u] = IF session[u] = "none" THEN 0 ELSE 1

\* the item passes the checks of the loop body and reaches the link creation
ReachesLinking(image) ==
    /\ FolderKey(image) \in DOMAIN all_folders
    /\ image.owner_user_id \in DOMAIN PHOTO_ROOTS
    /\ all_folders[FolderKey(image)][2] = image.owner_user_id

\* the item's link cannot be made: no permission, no support for links, or a
\* file or directory that is not a link lies at the path
CannotLink(path) ==
    \/ DirModeOf(path) \in {"ro", "nosymlink"}
    \/ path \in DOMAIN fs /\ fs[path].kind \in {"file", "dir"}

\* C9: when the item's link cannot be made, a message is written for that
\* item, a file or directory lying at the path is left in place, and the
\* loop goes on with the next item.
C9_FailedLinkLoggedAndKept ==
    [][(AtItem /\ ReachesLinking(CurImage) /\ CannotLink(CurLinkPath)) =>
            /\ mpc' = "albums"
            /\ ii' = ii + 1
            /\ Len(log') > Len(log)
            /\ log'[Len(log')].filename = CurImage.filename
            /\ log'[Len(log')].dst = CurLinkPath
            /\ EntryAt(fs, CurLinkPath).kind \in {"file", "dir"} =>
                    EntryAt(fs', CurLinkPath) = EntryAt(fs, CurLinkPath)
      ]_vars

====
